---------------------------- MODULE Spec2Model ----------------------------
(***************************************************************************)
(* Benchmark history compaction and merge (scripts/parse-benchmarks.py,    *)
(* scripts/backfill-history.py).                                           *)
(*                                                                         *)
(* Conventions.  Python lists are TLA+ sequences, so Python index i is     *)
(* position i + 1 here; the "index" kept in records is the position.       *)
(* A timestamp string is a record [sec, form]: form "plain" is the text    *)
(* datetime.now().isoformat() writes, form "zulu" is the same instant      *)
(* written with a trailing Z, form "garbage" is text fromisoformat         *)
(* rejects.  Scores are rationals; they are kept as numerator over the     *)
(* common denominator 10 * total_time_range, which is the same for every   *)
(* entry of one call, so comparing numerators is comparing scores.         *)
(***************************************************************************)
EXTENDS Integers, Sequences, FiniteSets, TLC

VARIABLES
    \* one call of smart_downsample_history and a second call on its result
    history, max_entries, result, raised, again, phase,
    \* one benchmark category of parse-benchmarks.py main(): the file
    \* latest.json, the position in main, its locals, the documents written
    \* (in the specifications of a whole main, doc is the three files and
    \* runs the number of categories main is done with)
    doc, pc, results, existing_history, pending, runs,
    \* what backfill_history returned ("none" before it returns)
    success

vars == <<history, max_entries, result, raised, again, phase,
          doc, pc, results, existing_history, pending, runs, success>>

dsVars == <<history, max_entries, result, raised, again, phase>>
runVars == <<doc, pc, results, existing_history, pending, runs, success>>

---------------------------------------------------------------------------
\* Bounds of the model.

\* largest epoch second a timestamp of the model converts to
MaxT == 2
\* longest history handed to smart_downsample_history
MaxLen == 4
\* largest cap handed to smart_downsample_history
MaxCap == 3
\* the cap of the stored history (max_history, 500 in the scripts), scaled down
MaxHistory == 2
\* number of documents written before the model stops starting runs
MaxRuns == 4
\* largest epoch second the clock shows when a run starts
MaxClock == 3
\* largest number of benchmarks a parser finds in its input
MaxBenchmarks == 1

Min(a, b) == IF a <= b THEN a ELSE b
Max(a, b) == IF a >= b THEN a ELSE b

---------------------------------------------------------------------------
\* Timestamps.

Secs == 0..MaxT
GarbageStamp == [sec |-> 0, form |-> "garbage"]
\* the timestamp texts of the model: every instant in the plain spelling, the
\* latest instant in the Z spelling as well, and one malformed text
Stamps ==
    [sec : Secs, form : {"plain"}]
        \cup {[sec |-> MaxT, form |-> "zulu"], GarbageStamp}

\* datetime.fromisoformat(ts.replace('Z', '+00:00')) returns a datetime for
\* the well-formed texts and raises ValueError for the others.
Parses(ts) == ts.form \in {"plain", "zulu"}

\* parse_timestamp(ts).timestamp(): the epoch seconds of a well-formed text;
\* both spellings of one instant convert to the same number.
parse_timestamp(ts) == ts.sec

\* the history entry holding timestamp ts and metric value x
Entry(ts, x) == [timestamp |-> ts, x |-> x]

\* timestamp_sec of the record built for one entry: the parsed epoch seconds,
\* or 0 in the except branch.
timestamp_sec(entry) ==
    IF Parses(entry.timestamp) THEN parse_timestamp(entry.timestamp) ELSE 0

\* the list "entries" built by the first loop
entries(h) ==
    [i \in 1..Len(h) |->
        [index |-> i, timestamp_sec |-> timestamp_sec(h[i]), data |-> h[i]]]

---------------------------------------------------------------------------
\* Scoring.

total_time_range(e) == e[Len(e)].timestamp_sec - e[1].timestamp_sec

min_neighbor_distance(e, i) ==
    Min(e[i].timestamp_sec - e[i-1].timestamp_sec,
        e[i+1].timestamp_sec - e[i].timestamp_sec)

\* faulty variant: the divisions are guarded by >= 0
range_guard_inclusive(e) == total_time_range(e) >= 0

\* if total_time_range > 0: the guard of both divisions
range_guard(e) == total_time_range(e) > 0

\* a division of the scoring loop has a zero divisor: total_time_range at
\* age_score, total_time_range / len(entries) at proximity_score
ZeroDivision(e) ==
    \E i \in 2..(Len(e) - 1) :
        /\ e[i].timestamp_sec # 0
        /\ range_guard(e)
        /\ total_time_range(e) = 0

\* faulty variant: every interior position is scored
ScoredAll(e) == 2..(Len(e) - 1)

\* the interior positions the scoring loop does not skip
Scored(e) == {i \in 2..(Len(e) - 1) : e[i].timestamp_sec # 0}

\* faulty variant: age_score normalised so that the oldest is 1, the newest 0
AgeNumOldestFirst(e, i) ==
    IF range_guard(e)
    THEN e[Len(e)].timestamp_sec - e[i].timestamp_sec
    ELSE 0

\* age_score * total_time_range
AgeNum(e, i) ==
    IF range_guard(e)
    THEN e[i].timestamp_sec - e[1].timestamp_sec
    ELSE 0

\* faulty variant: proximity_score without the clamp to [0, 1]
ProximityNumUnclamped(e, i) ==
    IF range_guard(e)
    THEN total_time_range(e) - min_neighbor_distance(e, i) * Len(e)
    ELSE 0

\* proximity_score * total_time_range:
\* 1 - d / (R / len) = (R - d * len) / R, clamped to [0, 1]
ProximityNum(e, i) ==
    IF range_guard(e)
    THEN Max(0, Min(total_time_range(e),
                    total_time_range(e) - min_neighbor_distance(e, i) * Len(e)))
    ELSE 0

\* combined_score * 10 * total_time_range
ScoreNum(e, i) == 6 * ProximityNum(e, i) + 4 * AgeNum(e, i)

\* faulty variant: the reversed sort also reverses the order of equal scores
RankReversed(e, i) ==
    Cardinality({j \in Scored(e) :
        \/ ScoreNum(e, j) > ScoreNum(e, i)
        \/ ScoreNum(e, j) = ScoreNum(e, i) /\ j > i})

\* position of entry i in "scores" after scores.sort(reverse=True): the sort
\* is stable, so equal scores stay in ascending index order.
Rank(e, i) ==
    Cardinality({j \in Scored(e) :
        \/ ScoreNum(e, j) > ScoreNum(e, i)
        \/ ScoreNum(e, j) = ScoreNum(e, i) /\ j < i})

\* the sorted list "scores", as the list of its "index" fields
scores(e) ==
    [r \in 1..Cardinality(Scored(e)) |->
        CHOOSE i \in Scored(e) : Rank(e, i) = r - 1]

\* faulty variant: the sort is ascending, the lowest scores are removed
RemovedLowest(h, k) ==
    LET e == entries(h)
        s == scores(e)
    IN  {s[j] : j \in (Len(s) - Min(k, Len(s)) + 1)..Len(s)}

\* the indices the final loop finds among the first
\* min(to_remove_count, len(scores)) elements of "scores"; k is to_remove_count
Removed(h, k) ==
    LET e == entries(h)
        s == scores(e)
    IN  {s[j] : j \in 1..Min(k, Len(s))}

\* faulty variant: simple truncation to the most recent entries: drop the first k
to_keep_truncating(h, k) == {i \in 1..Len(h) : i > k}

\* the set to_keep when the final loop is done
to_keep(h, k) ==
    LET removed == Removed(h, k)
    IN  {1, Len(h)} \cup {i \in 1..Len(h) : i \notin removed}

RECURSIVE SortedSeq(_)
\* a finite set of integers as an ascending sequence
SortedSeq(S) ==
    IF S = {} THEN <<>>
    ELSE LET m == CHOOSE x \in S : \A y \in S : x <= y
         IN  <<m>> \o SortedSeq(S \ {m})

\* faulty variant: the kept positions in the order they were added to to_keep:
\* first, last, then the others
KeptOrderAsAdded(h, k) ==
    IF Len(h) = 1 THEN <<1>>
    ELSE <<1, Len(h)>> \o SortedSeq(to_keep(h, k) \ {1, Len(h)})

\* sorted(to_keep): the positions of h that are returned, in returned order
KeptOrder(h, k) == SortedSeq(to_keep(h, k))

\* the list "result" of a call that got past the guard with a non-empty list
Compact(h, k) ==
    LET o == KeptOrder(h, k) IN [j \in 1..Len(o) |-> h[o[j]]]

\* the call raises.  IndexError: to_keep is {0, -1}, and entries[-1] does
\* not exist in an empty list; only a negative cap lets [] past the guard.
\* ZeroDivisionError: a division of the scoring loop has a zero divisor.
Raises(h, n) ==
    /\ Len(h) > n
    /\ (Len(h) = 0 \/ ZeroDivision(entries(h)))

\* faulty variant: compaction that leaves room for the entry about to be appended
smart_downsample_leaving_room(h, n) ==
    IF Len(h) < n THEN h
    ELSE IF Len(h) = 0 THEN <<>>
    ELSE Compact(h, Len(h) - n + 1)

\* faulty variant: compaction that evicts one entry per call
to_remove_one(h, n) == 1

to_remove_count(h, n) == Len(h) - n

\* the value returned (<<>> stands for no value when the call raises)
smart_downsample_history(h, n) ==
    IF Len(h) <= n THEN h
    ELSE IF Raises(h, n) THEN <<>>
    ELSE Compact(h, to_remove_count(h, n))

---------------------------------------------------------------------------
\* The persisted document and the merge of parse-benchmarks.py.

\* latest.json does not exist
AbsentDoc == [state |-> "absent"]
\* latest.json exists and is empty: open(output_file, 'w') has truncated it
\* and json.dump has not run; json.load raises on it
TruncatedDoc == [state |-> "truncated"]
\* main's locals before a parser has returned
NoResults == [valid |-> FALSE]

\* what a parser returns: the results dictionary and the valid flag; the
\* timestamp is datetime.now().isoformat(), a naive local wall-clock text
ParsedResults(now, x, valid) ==
    [timestamp |-> [sec |-> now, form |-> "plain"],
     metrics |-> [x |-> x],
     valid |-> valid]

\* faulty variant: an unreadable document is fatal (the exception is raised
\* again)
LoadRaisesWhenUnreadable(d) == d.state \notin {"absent", "ok"}

\* an exception leaves load_existing_history: never, every Exception of the
\* try block is caught and [] returned
LoadRaises(d) == FALSE

\* faulty variant: the history is loaded as it is stored, without compaction
load_as_stored(d) ==
    IF d.state # "ok" THEN <<>> ELSE d.history

\* faulty variant: simple truncation, the most recent max_history entries
load_most_recent(d) ==
    IF d.state # "ok" THEN <<>>
    ELSE IF Len(d.history) <= MaxHistory THEN d.history
    ELSE SubSeq(d.history, Len(d.history) - MaxHistory + 1, Len(d.history))

load_existing_history(d) ==
    IF d.state = "absent" THEN <<>>
    ELSE IF d.state # "ok" THEN <<>>
    ELSE smart_downsample_history(d.history, MaxHistory)

\* {"timestamp": ts} followed by update(metrics): every metric becomes a
\* top-level key, and a metric key replaces an equal key already there
Flatten(ts, metrics) == metrics @@ [timestamp |-> ts]

\* history_entry: the timestamp, then every metric at the top level
history_entry(r) ==
    IF "metrics" \in DOMAIN r
    THEN Flatten(r.timestamp, r.metrics)
    ELSE [timestamp |-> r.timestamp]

\* faulty variant: the entry is appended only when there is a previous entry
new_history_after_first(r, existing) ==
    IF existing = <<>> THEN <<>> ELSE Append(existing, history_entry(r))

\* new_history = existing_history + [history_entry]
new_history(r, existing) == Append(existing, history_entry(r))

\* the dictionary passed as results once the call has returned:
\* results["history"] = new_history is an assignment into the argument
results_after(r, existing) == [history |-> new_history(r, existing)] @@ r

\* the dictionary add_history_entry returns, as json.dump writes it
add_history_entry(r, existing) ==
    [state |-> "ok",
     timestamp |-> r.timestamp,
     metrics |-> r.metrics,
     history |-> new_history(r, existing)]

---------------------------------------------------------------------------
\* backfill-history.py: the history rebuilt from the timestamped files.

\* the contents of one timestamped file: a snapshot with "metrics" and
\* "timestamp", a JSON document lacking one of the two keys, or text
\* json.load raises on
SnapshotFile(ts, x) ==
    [kind |-> "snapshot", timestamp |-> ts, metrics |-> [x |-> x]]
BareFile == [kind |-> "bare"]
CorruptFile == [kind |-> "corrupt"]

RECURSIVE FileEntries(_)
\* the list "history" after the loop over json_files (files is in file name
\* order; a missing directory behaves as an empty one)
FileEntries(files) ==
    IF files = <<>> THEN <<>>
    ELSE LET f == files[Len(files)]
             before == FileEntries(SubSeq(files, 1, Len(files) - 1))
         IN  IF f.kind = "snapshot"
             THEN Append(before, Flatten(f.timestamp, f.metrics))
             ELSE before

load_timestamped_files(files) ==
    LET h == FileEntries(files)
    IN  IF Len(h) > MaxHistory
        THEN smart_downsample_history(h, MaxHistory)
        ELSE h

\* the list "history" backfill_history stores in data["history"]
backfilled_history(data, files) ==
    LET h == load_timestamped_files(files)
        current_entry == Flatten(data.timestamp, data.metrics)
    IN  IF h = <<>> \/ h[Len(h)].timestamp # current_entry.timestamp
        THEN Append(h, current_entry)
        ELSE h

---------------------------------------------------------------------------
\* One call of smart_downsample_history on a bounded input, then a second
\* call on what the first returned.

Caps == {0 - 1} \cup (0..MaxCap)

\* the histories of length len whose i-th entry has metric value i
HistoriesOfLen(len) ==
    {[i \in 1..len |-> Entry(st[i], i)] : st \in [1..len -> Stamps]}

Histories == UNION {HistoriesOfLen(len) : len \in 0..MaxLen}

RunIdle ==
    /\ doc = AbsentDoc
    /\ pc = "idle"
    /\ results = NoResults
    /\ existing_history = <<>>
    /\ pending = AbsentDoc
    /\ runs = 0
    /\ success = "none"

InitDownsample ==
    /\ history \in Histories
    /\ max_entries \in Caps
    /\ result = <<>>
    /\ raised = FALSE
    /\ again = <<>>
    /\ phase = "input"
    /\ RunIdle

Downsample ==
    /\ phase = "input"
    /\ result' = smart_downsample_history(history, max_entries)
    /\ raised' = Raises(history, max_entries)
    /\ phase' = IF Raises(history, max_entries) THEN "raised" ELSE "once"
    /\ UNCHANGED <<history, max_entries, again>>
    /\ UNCHANGED runVars

DownsampleAgain ==
    /\ phase = "once"
    /\ again' = smart_downsample_history(result, max_entries)
    /\ phase' = "twice"
    /\ UNCHANGED <<history, max_entries, result, raised>>
    /\ UNCHANGED runVars

NextDownsample == Downsample \/ DownsampleAgain

SpecDownsample == InitDownsample /\ [][NextDownsample]_vars

---------------------------------------------------------------------------
\* parse-benchmarks.py main(), one category: parse, load the history, add
\* the entry, open latest.json for writing, dump.

DownsampleIdle ==
    /\ history = <<>>
    /\ max_entries = 0
    /\ result = <<>>
    /\ raised = FALSE
    /\ again = <<>>
    /\ phase = "unused"

Init == RunIdle /\ DownsampleIdle

\* parse_*_results returns (results, valid); an invalid parse skips the
\* category
Parse ==
    /\ pc = "idle"
    /\ runs < MaxRuns
    /\ \E now \in 0..MaxClock, valid \in BOOLEAN :
          /\ results' = ParsedResults(now, runs + 1, valid)
          /\ pc' = IF valid THEN "load" ELSE "idle"
    /\ UNCHANGED <<doc, existing_history, pending, runs, success>>
    /\ UNCHANGED dsVars

\* an exception that leaves load_existing_history ends main with a traceback
Load ==
    /\ pc = "load"
    /\ IF LoadRaises(doc)
       THEN pc' = "crashed" /\ UNCHANGED existing_history
       ELSE /\ existing_history' = load_existing_history(doc)
            /\ pc' = "add"
    /\ UNCHANGED <<doc, results, pending, runs, success>>
    /\ UNCHANGED dsVars

Add ==
    /\ pc = "add"
    /\ pending' = add_history_entry(results, existing_history)
    /\ results' = results_after(results, existing_history)
    /\ pc' = "open"
    /\ UNCHANGED <<doc, existing_history, runs, success>>
    /\ UNCHANGED dsVars

\* open(output_file, 'w') truncates the file
Open ==
    /\ pc = "open"
    /\ doc' = TruncatedDoc
    /\ pc' = "dump"
    /\ UNCHANGED <<results, existing_history, pending, runs, success>>
    /\ UNCHANGED dsVars

\* json.dump(results, f, indent=2) and the end of the with block
Dump ==
    /\ pc = "dump"
    /\ doc' = pending
    /\ pc' = "idle"
    /\ runs' = runs + 1
    /\ UNCHANGED <<results, existing_history, pending, success>>
    /\ UNCHANGED dsVars

\* the process is killed between two steps of a run
Interrupt ==
    /\ pc # "idle"
    /\ pc' = "idle"
    /\ UNCHANGED <<doc, results, existing_history, pending, runs, success>>
    /\ UNCHANGED dsVars

Next == Parse \/ Load \/ Add \/ Open \/ Dump \/ Interrupt

Spec == Init /\ [][Next]_vars

---------------------------------------------------------------------------
\* parse-benchmarks.py main(), the three categories in the order of the code.
\* Here doc is the three latest.json files, one per category, runs is the
\* number of categories main is done with, and the category in hand is
\* Categories[runs + 1].

Categories == <<"criterion", "gungraun", "quality">>

\* faulty variant: every parse is reported valid
valid_always(n) == TRUE

\* the flag a parser returns beside its results: bool(results["benchmarks"]),
\* and for the quality parser test_cases > 0 or some metric > 0
valid_flag(n) == n > 0

\* what a parser returns when its input holds n benchmarks: the placeholder
\* metrics (all zero) when n = 0, the computed ones otherwise
parse_results(now, n) == ParsedResults(now, n, valid_flag(n))

\* the latest.json of a category before main runs: absent, or one entry
StartDocs ==
    {AbsentDoc} \cup {add_history_entry(ParsedResults(now, 1, TRUE), <<>>) :
                        now \in Secs}

\* the position in main after a category is finished
NextCategory(done) == IF done = Len(Categories) THEN "done" ELSE "parse"

InitMain ==
    /\ DownsampleIdle
    /\ doc \in [1..Len(Categories) -> StartDocs]
    /\ pc = "parse"
    /\ results = NoResults
    /\ existing_history = <<>>
    /\ pending = AbsentDoc
    /\ runs = 0
    /\ success = "none"

\* results, valid = parse_..._results(...); if valid: ... else: print, go on
MainParse ==
    /\ pc = "parse"
    /\ \E now \in Secs, n \in 0..MaxBenchmarks :
          /\ results' = parse_results(now, n)
          /\ IF valid_flag(n)
             THEN pc' = "load" /\ runs' = runs
             ELSE pc' = NextCategory(runs + 1) /\ runs' = runs + 1
    /\ UNCHANGED <<doc, existing_history, pending, success>>
    /\ UNCHANGED dsVars

MainLoad ==
    /\ pc = "load"
    /\ existing_history' = load_existing_history(doc[runs + 1])
    /\ pc' = "add"
    /\ UNCHANGED <<doc, results, pending, runs, success>>
    /\ UNCHANGED dsVars

MainAdd ==
    /\ pc = "add"
    /\ pending' = add_history_entry(results, existing_history)
    /\ results' = results_after(results, existing_history)
    /\ pc' = "open"
    /\ UNCHANGED <<doc, existing_history, runs, success>>
    /\ UNCHANGED dsVars

MainOpen ==
    /\ pc = "open"
    /\ doc' = [doc EXCEPT ![runs + 1] = TruncatedDoc]
    /\ pc' = "dump"
    /\ UNCHANGED <<results, existing_history, pending, runs, success>>
    /\ UNCHANGED dsVars

MainDump ==
    /\ pc = "dump"
    /\ doc' = [doc EXCEPT ![runs + 1] = pending]
    /\ pc' = NextCategory(runs + 1)
    /\ runs' = runs + 1
    /\ UNCHANGED <<results, existing_history, pending, success>>
    /\ UNCHANGED dsVars

NextMain == MainParse \/ MainLoad \/ MainAdd \/ MainOpen \/ MainDump

SpecMain == InitMain /\ [][NextMain]_vars

---------------------------------------------------------------------------
\* One call of add_history_entry on a bounded input: a loaded history and
\* the results of a parser.

\* values of a metric: zero, and the pair 100, 120
MetricValues == {0, 100, 120}

\* the metrics of a snapshot: one metric, two metrics, and a metric that is
\* itself named "timestamp" (its value is no timestamp text)
MetricSets ==
    {[x |-> v] : v \in MetricValues}
        \cup {[x |-> 120, y |-> 0], [x |-> 100, timestamp |-> GarbageStamp]}

\* the entries an earlier merge stored
StoredEntries ==
    {Flatten([sec |-> t, form |-> "plain"], [x |-> v]) :
        t \in Secs, v \in {0, 100}}

ExistingHistories ==
    UNION {[1..len -> StoredEntries] : len \in 0..MaxHistory}

InitMerge ==
    /\ DownsampleIdle
    /\ doc = AbsentDoc
    /\ pc = "add"
    /\ results \in {[timestamp |-> [sec |-> t, form |-> "plain"],
                     metrics |-> m, valid |-> TRUE] :
                        t \in Secs, m \in MetricSets}
    /\ existing_history \in ExistingHistories
    /\ pending = AbsentDoc
    /\ runs = 0
    /\ success = "none"

SpecMerge == InitMerge /\ [][Add]_vars

---------------------------------------------------------------------------
\* backfill-history.py backfill_history(), one category.  The history it
\* writes is rebuilt from the files alone and the other fields of latest.json
\* are kept, so a second call sees what the first one saw: one call is
\* modelled, from every latest.json parse-benchmarks.py leaves behind.

MaxFiles == MaxHistory + 1

FileKinds ==
    [kind : {"snapshot"}, ts : Stamps]
        \cup {[kind |-> "bare", ts |-> GarbageStamp],
              [kind |-> "corrupt", ts |-> GarbageStamp]}

FileOf(c, i) ==
    IF c.kind = "snapshot" THEN SnapshotFile(c.ts, i)
    ELSE IF c.kind = "bare" THEN BareFile
    ELSE CorruptFile

\* the directories of len files; the i-th snapshot carries x = i
DirsOfLen(len) ==
    {[i \in 1..len |-> FileOf(c[i], i)] : c \in [1..len -> FileKinds]}

Dirs == UNION {DirsOfLen(len) : len \in 0..MaxFiles}

InitBackfill ==
    /\ DownsampleIdle
    /\ doc \in {AbsentDoc, TruncatedDoc}
            \cup {add_history_entry(ParsedResults(now, 0, TRUE), <<>>) :
                    now \in Secs}
    /\ pc = "idle"
    /\ results = NoResults
    /\ existing_history = <<>>
    /\ pending = AbsentDoc
    /\ runs = 0
    /\ success = "none"

\* latest_file.exists(), json.load(f), load_timestamped_files and the merge
\* of the current entry; a missing or unreadable latest.json returns False
BackfillRead ==
    /\ pc = "idle"
    /\ runs = 0
    /\ \E files \in Dirs :
          IF doc.state = "ok"
          THEN /\ existing_history' = load_timestamped_files(files)
               /\ pending' = [doc EXCEPT !.history = backfilled_history(doc, files)]
               /\ pc' = "bf_open"
               /\ UNCHANGED <<runs, success>>
          ELSE /\ success' = "False"
               /\ runs' = 1
               /\ UNCHANGED <<existing_history, pending, pc>>
    /\ UNCHANGED <<doc, results>>
    /\ UNCHANGED dsVars

\* open(latest_file, 'w') truncates the file
BackfillOpen ==
    /\ pc = "bf_open"
    /\ doc' = TruncatedDoc
    /\ pc' = "bf_dump"
    /\ UNCHANGED <<results, existing_history, pending, runs, success>>
    /\ UNCHANGED dsVars

\* json.dump(data, f, indent=2), then return True
BackfillDump ==
    /\ pc = "bf_dump"
    /\ doc' = pending
    /\ pc' = "idle"
    /\ runs' = 1
    /\ success' = "True"
    /\ UNCHANGED <<results, existing_history, pending>>
    /\ UNCHANGED dsVars

NextBackfill == BackfillRead \/ BackfillOpen \/ BackfillDump \/ Interrupt

SpecBackfill == InitBackfill /\ [][NextBackfill]_vars

---------------------------------------------------------------------------
\* backfill-history.py main(): backfill_history on each selected category.
\* Here doc is the three latest.json files, results holds the local
\* bench_types (positions in Categories), runs is the number of categories
\* the loop is done with, success is the local flag of main, and pc ends at
\* the value main returns.

\* --bench-type: "all", or one category
BenchTypes ==
    {[i \in 1..Len(Categories) |-> i]} \cup {<<c>> : c \in 1..Len(Categories)}

\* the directory of timestamped files of a category: empty, or one file
MainDirs == DirsOfLen(0) \cup DirsOfLen(1)

\* faulty variant: main returns 0 whatever happened
exit_zero(flag) == "exit0"

\* return 0 if success else 1
exit_status(flag) == IF flag = "True" THEN "exit0" ELSE "exit1"

InitBackfillMain ==
    /\ DownsampleIdle
    /\ doc \in [1..Len(Categories) -> StartDocs \cup {TruncatedDoc}]
    /\ pc = "bf_call"
    /\ results \in {[bench_types |-> b] : b \in BenchTypes}
    /\ existing_history = <<>>
    /\ pending = AbsentDoc
    /\ runs = 0
    /\ success = "True"

\* the call of backfill_history up to the write: a missing latest.json and
\* an exception of json.load return False, and main sets success = False
BackfillMainCall ==
    /\ pc = "bf_call"
    /\ runs < Len(results.bench_types)
    /\ LET c == results.bench_types[runs + 1]
       IN  \E files \in MainDirs :
              IF doc[c].state = "ok"
              THEN /\ existing_history' = load_timestamped_files(files)
                   /\ pending' = [doc[c] EXCEPT
                                     !.history = backfilled_history(doc[c], files)]
                   /\ pc' = "bf_open"
                   /\ UNCHANGED <<runs, success>>
              ELSE /\ success' = "False"
                   /\ runs' = runs + 1
                   /\ UNCHANGED <<existing_history, pending, pc>>
    /\ UNCHANGED <<doc, results>>
    /\ UNCHANGED dsVars

\* open(latest_file, 'w') truncates the file, or raises (the file cannot be
\* written): except Exception returns False
BackfillMainOpen ==
    /\ pc = "bf_open"
    /\ \/ /\ doc' = [doc EXCEPT ![results.bench_types[runs + 1]] = TruncatedDoc]
          /\ pc' = "bf_dump"
          /\ UNCHANGED <<runs, success>>
       \/ /\ success' = "False"
          /\ runs' = runs + 1
          /\ pc' = "bf_call"
          /\ UNCHANGED doc
    /\ UNCHANGED <<results, existing_history, pending>>
    /\ UNCHANGED dsVars

\* json.dump(data, f, indent=2), then return True
BackfillMainDump ==
    /\ pc = "bf_dump"
    /\ doc' = [doc EXCEPT ![results.bench_types[runs + 1]] = pending]
    /\ pc' = "bf_call"
    /\ runs' = runs + 1
    /\ UNCHANGED <<results, existing_history, pending, success>>
    /\ UNCHANGED dsVars

\* the end of the loop: return 0 if success else 1
BackfillMainReturn ==
    /\ pc = "bf_call"
    /\ runs = Len(results.bench_types)
    /\ pc' = exit_status(success)
    /\ UNCHANGED <<doc, results, existing_history, pending, runs, success>>
    /\ UNCHANGED dsVars

NextBackfillMain ==
    BackfillMainCall \/ BackfillMainOpen \/ BackfillMainDump \/ BackfillMainReturn

SpecBackfillMain == InitBackfillMain /\ [][NextBackfillMain]_vars

---------------------------------------------------------------------------
\* One call of smart_downsample_history on a history of four entries whose
\* instants are among 0, 1, 2 and 10 and whose values are 10, 11, 12 and 20,
\* then a second call on what the first returned.

ScenarioInstants == {0, 1, 2, 10}

ScenarioValues == <<10, 11, 12, 20>>

\* the history of four entries with the instants st
ScenarioHistory(st) ==
    [i \in 1..Len(st) |-> Entry([sec |-> st[i], form |-> "plain"],
                                ScenarioValues[i])]

ScenarioHistories ==
    {ScenarioHistory(st) : st \in [1..Len(ScenarioValues) -> ScenarioInstants]}

InitScenario ==
    /\ history \in ScenarioHistories
    /\ max_entries \in Caps
    /\ result = <<>>
    /\ raised = FALSE
    /\ again = <<>>
    /\ phase = "input"
    /\ RunIdle

SpecScenario == InitScenario /\ [][NextDownsample]_vars

---------------------------------------------------------------------------
\* Properties of one call (checked under SpecDownsample).

AllParse(h) == \A i \in 1..Len(h) : Parses(h[i].timestamp)

\* the interior positions of h
Interior(h) == 2..(Len(h) - 1)

\* the positions of h whose entry is in the list out
Present(h, out) == {i \in 1..Len(h) : \E j \in 1..Len(out) : out[j] = h[i]}

\* C1: when every timestamp of the input parses, the call returns exactly
\* min(len(history), max_entries) entries.  Stated here for the caps >= 2,
\* the caps that leave room for the two boundary entries the call always
\* keeps; the claim says it of every cap.
C1_SizeBound ==
    (phase = "once" /\ AllParse(history) /\ max_entries >= 2)
        => Len(result) = Min(Len(history), max_entries)

\* C2: when the input is non-empty and longer than the cap, the first entry
\* returned is the first entry of the input and the last entry returned is
\* the last entry of the input.
C2_BoundaryPreservation ==
    (phase = "once" /\ Len(history) > 0 /\ Len(history) > max_entries)
        => /\ Len(result) > 0
           /\ result[1] = history[1]
           /\ result[Len(result)] = history[Len(history)]

C2_Witness ==
    /\ phase = "once"
    /\ Len(history) > max_entries
    /\ Len(result) < Len(history)
    /\ Len(result) >= 2
    /\ result[1] = history[1]

\* C3: the list returned is a subsequence of the input: every entry returned
\* is an entry of the input, none is returned twice, and the entries returned
\* are in the order of the input.  (The i-th input entry carries x = i.)
C3_OrderPreservation ==
    phase = "once" =>
        /\ \A j \in 1..Len(result) :
              /\ result[j].x \in 1..Len(history)
              /\ result[j] = history[result[j].x]
        /\ \A j, k \in 1..Len(result) : j < k => result[j].x < result[k].x

C3_Witness ==
    /\ phase = "once"
    /\ Len(history) = 4
    /\ Len(result) = 3
    /\ result[2].x = 3

\* C4: every input entry whose timestamp does not parse is in the list
\* returned, whatever the cap and wherever the entry stands.
C4_UnparseableImmunity ==
    phase = "once" =>
        \A i \in 1..Len(history) :
            ~Parses(history[i].timestamp) => i \in Present(history, result)

C4_Witness ==
    /\ phase = "once"
    /\ Len(result) < Len(history)
    /\ \E i \in Interior(history) :
          /\ ~Parses(history[i].timestamp)
          /\ i \in Present(history, result)

\* C5: for a cap >= 2, a second call on the list the first call returned
\* returns that list again.
C5_Idempotence ==
    (phase = "twice" /\ max_entries >= 2) => again = result

C5_Witness ==
    /\ phase = "twice"
    /\ max_entries >= 2
    /\ Len(result) < Len(history)
    /\ Len(result) > max_entries
    /\ again = result

\* C6: a history no longer than the cap is returned unchanged.
C6_IdentityUnderCap ==
    (phase = "once" /\ Len(history) <= max_entries) => result = history

C6_Witness ==
    /\ phase = "once"
    /\ Len(history) = max_entries
    /\ Len(history) >= 3
    /\ AllParse(history)
    /\ result = history

\* C7: when the input is longer than the cap, the call removes exactly
\* min(k, s) entries, k = len(history) - max_entries and s = the number of
\* interior entries whose timestamp parses.
C7_EvictionCount ==
    (phase = "once" /\ Len(history) > max_entries) =>
        Len(history) - Len(result) =
            Min(Len(history) - max_entries,
                Cardinality({i \in Interior(history) :
                                Parses(history[i].timestamp)}))

---------------------------------------------------------------------------
\* Properties of the stored history (checked under Spec).

\* every timestamp of h parses to a non-zero epoch second, and each is
\* later than the one before it
AscendingScoreable(h) ==
    /\ \A i \in 1..Len(h) : Parses(h[i].timestamp) /\ timestamp_sec(h[i]) # 0
    /\ \A i \in 1..(Len(h) - 1) : timestamp_sec(h[i]) < timestamp_sec(h[i + 1])

\* C8: the history of every document written has at most max_history
\* entries.  Stated here for the histories whose timestamps parse to
\* non-zero epoch seconds in strictly ascending order, which the compaction
\* can always bring to the cap.
C8_CapInvariant ==
    (doc.state = "ok" /\ AscendingScoreable(doc.history))
        => Len(doc.history) <= MaxHistory

\* C9: when the timestamp of the snapshot equals the timestamp of the last
\* entry of the loaded history, the merge appends nothing: the merged
\* history is as long as the loaded one.
C9_MergeIdempotence ==
    (/\ pc = "open"
     /\ Len(existing_history) > 0
     /\ existing_history[Len(existing_history)].timestamp = results.timestamp)
        => Len(pending.history) = Len(existing_history)

\* C10: no two consecutive entries of a written history have the same
\* timestamp.
C10_DistinctNeighbours ==
    doc.state = "ok" =>
        \A i \in 1..(Len(doc.history) - 1) :
            doc.history[i].timestamp # doc.history[i + 1].timestamp

---------------------------------------------------------------------------
\* The same three properties of the history backfill_history writes (checked
\* under SpecBackfill).

\* the cap on the written history, for timestamps that parse to non-zero
\* epoch seconds in chronological order
Backfill_CapInvariant ==
    (/\ success = "True"
     /\ \A i \in 1..Len(doc.history) :
            Parses(doc.history[i].timestamp) /\ timestamp_sec(doc.history[i]) # 0
     /\ \A i \in 1..(Len(doc.history) - 1) :
            timestamp_sec(doc.history[i]) <= timestamp_sec(doc.history[i + 1]))
        => Len(doc.history) <= MaxHistory

\* a current entry whose timestamp is the last loaded one's is not appended
Backfill_MergeIdempotence ==
    (/\ pc = "bf_open"
     /\ Len(existing_history) > 0
     /\ existing_history[Len(existing_history)].timestamp = pending.timestamp)
        => pending.history = existing_history

\* no two consecutive entries of the written history share a timestamp
Backfill_DistinctNeighbours ==
    success = "True" =>
        \A i \in 1..(Len(doc.history) - 1) :
            doc.history[i].timestamp # doc.history[i + 1].timestamp

---------------------------------------------------------------------------
\* Properties of the runs (checked under Spec).

\* C13: a latest.json that is absent or unreadable is not fatal: the load
\* returns the empty history, main goes on, and the document it writes holds
\* a history of exactly the new snapshot.
C13_UnreadableNotFatal ==
    [][/\ pc' # "crashed"
       /\ (pc = "load" /\ pc' = "add" /\ doc.state # "ok")
             => existing_history' = <<>>
       /\ (pc = "dump" /\ runs' = runs + 1 /\ existing_history = <<>>)
             => /\ doc'.state = "ok"
                /\ Len(doc'.history) = 1
                /\ doc'.history[1].timestamp = results.timestamp
                /\ doc'.history[1].x = results.metrics.x]_vars

\* a second document has been written, and its history is the new snapshot
\* alone: the run that wrote it found latest.json truncated
C13_Witness ==
    /\ pc = "idle"
    /\ runs >= 2
    /\ doc.state = "ok"
    /\ existing_history = <<>>
    /\ Len(doc.history) = 1

---------------------------------------------------------------------------
\* Properties of one merge (checked under SpecMerge).

\* the names of the derived fields of the metrics of the model
ChangeKeys == {"x_change", "y_change", "timestamp_change"}

\* C11: when the last entry of the loaded history has metric x with a
\* strictly positive value prev and the snapshot has x = curr, the metrics
\* returned hold x_change = (curr - prev) / prev * 100 and prev_x = prev.
C11_DeltaCorrectness ==
    (/\ pc = "open"
     /\ Len(existing_history) > 0
     /\ existing_history[Len(existing_history)].x > 0)
        => LET prev == existing_history[Len(existing_history)].x
               curr == results.metrics.x
           IN  /\ {"x_change", "prev_x"} \subseteq DOMAIN pending.metrics
               /\ pending.metrics["x_change"] * prev = (curr - prev) * 100
               /\ pending.metrics["prev_x"] = prev

\* C12: merging a snapshot into the empty history returns a history of
\* length 1 that holds the snapshot, and metrics without any _change field.
C12_FirstMerge ==
    (pc = "open" /\ existing_history = <<>>)
        => /\ Len(pending.history) = 1
           /\ \A k \in DOMAIN results.metrics :
                 /\ k \in DOMAIN pending.history[1]
                 /\ pending.history[1][k] = results.metrics[k]
           /\ DOMAIN pending.metrics \cap ChangeKeys = {}

C12_Witness ==
    /\ pc = "open"
    /\ existing_history = <<>>
    /\ Len(pending.history) = 1
    /\ pending.history[1].x = 120
    /\ pending.history[1].timestamp = results.timestamp

---------------------------------------------------------------------------
\* Degenerate inputs of one call (checked under SpecDownsample).

\* every timestamp of h parses, and all parse to the same instant
Flat(h) ==
    /\ AllParse(h)
    /\ \A i \in 1..Len(h) : timestamp_sec(h[i]) = timestamp_sec(h[1])

\* the empty history, a single-entry history, a flat history
Degenerate(h) == Len(h) <= 1 \/ Flat(h)

\* C14: for a degenerate input the call returns without raising and
\* without dividing by zero, for every cap.
C14_DegenerateNeverRaises ==
    (phase # "input" /\ Degenerate(history))
        => /\ phase # "raised"
           /\ ~raised
           /\ ~ZeroDivision(entries(history))

\* what the call does keep of it: a single-entry history and a flat history
\* never make it raise, whatever the cap, and the empty history does not for
\* a cap >= 0; a call that does not raise has divided by no zero.
Degenerate_RaisesOnlyEmptyNegative ==
    (/\ phase # "input"
     /\ Degenerate(history)
     /\ (Len(history) > 0 \/ max_entries >= 0))
        => /\ phase # "raised"
           /\ ~raised
           /\ ~ZeroDivision(entries(history))

\* a flat history longer than the cap went through the scoring loop, whose
\* divisions the guard total_time_range > 0 kept from a zero divisor
Degenerate_FlatScored ==
    /\ phase = "once"
    /\ Flat(history)
    /\ Len(history) >= 3
    /\ timestamp_sec(history[1]) # 0
    /\ Len(history) > max_entries
    /\ max_entries >= 0
    /\ Len(result) = Max(2, max_entries)

---------------------------------------------------------------------------
\* The scenario of four entries (checked under SpecScenario).

\* C15: the history with instants 0, 1, 2, 10 and max_entries = 3 gives
\* exactly three entries: the entry at instant 0, one of the entries at
\* instants 1 and 2, and the entry at instant 10.
C15_Scenario ==
    (/\ phase = "once"
     /\ history = ScenarioHistory(<<0, 1, 2, 10>>)
     /\ max_entries = 3)
        => /\ Len(result) = 3
           /\ result[1] = history[1]
           /\ result[2] \in {history[2], history[3]}
           /\ result[3] = history[4]

\* the call evicts the entry at instant 2 (score 0.44 against 0.40)
C15_Witness ==
    /\ phase = "once"
    /\ history = ScenarioHistory(<<0, 1, 2, 10>>)
    /\ max_entries = 3
    /\ result = <<history[1], history[2], history[4]>>

---------------------------------------------------------------------------
\* The oldest and the newest entry across runs (checked under Spec).

\* C16: in a run that loads, appends and writes, the first entry of the
\* stored history is the first entry of the history loaded and of the history
\* written, and the snapshot of the run is the last entry of the history
\* written.
C16_OldestNewestSurvive ==
    [][/\ (pc = "load" /\ pc' = "add" /\ doc.state = "ok" /\ Len(doc.history) > 0)
             => /\ Len(existing_history') > 0
                /\ existing_history'[1] = doc.history[1]
       /\ (pc = "dump" /\ runs' = runs + 1)
             => /\ doc'.state = "ok"
                /\ Len(doc'.history) > 0
                /\ doc'.history[Len(doc'.history)]
                      = Flatten(results.timestamp, results.metrics)
                /\ Len(existing_history) > 0
                      => doc'.history[1] = existing_history[1]]_vars

\* the fourth run loaded three entries, compacted them and wrote three: the
\* entry of the first run is still the first, the entry of the fourth run is
\* the last
C16_Witness ==
    /\ pc = "idle"
    /\ runs = 4
    /\ doc.state = "ok"
    /\ Len(doc.history) = 3
    /\ Len(existing_history) = 2
    /\ doc.history[1].x = 1
    /\ doc.history[3].x = 4

\* C17: latest.json goes from the old complete document to the new complete
\* document in one step: at no moment, and after no interrupted run, is the
\* file empty or partially written.
C17_AtomicWriteBack ==
    doc.state \in {"absent", "ok"}

\* the same of the file backfill_history rewrites (checked under SpecBackfill)
Backfill_AtomicWriteBack ==
    [][doc' # doc => doc'.state = "ok"]_vars

---------------------------------------------------------------------------
\* The score (checked under SpecDownsample).

\* every timestamp of h parses and none is earlier than the one before it
Chronological(h) ==
    /\ AllParse(h)
    /\ \A i \in 1..(Len(h) - 1) : timestamp_sec(h[i]) <= timestamp_sec(h[i + 1])

\* C18: when the timestamps of the input parse and are in non-decreasing
\* order, the combined score of every interior position lies in [0, 1]:
\* its numerator over 10 * total_time_range lies in [0, 10 * total_time_range].
C18_ScoreRange ==
    (phase = "once" /\ Len(history) > max_entries /\ Chronological(history))
        => LET e == entries(history)
           IN  \A i \in Interior(history) :
                  /\ ScoreNum(e, i) >= 0
                  /\ ScoreNum(e, i) <= 10 * total_time_range(e)

\* a scored position whose score is strictly between 0 and 1 and whose
\* proximity score was clamped
C18_Witness ==
    /\ phase = "once"
    /\ Len(history) > max_entries
    /\ Chronological(history)
    /\ LET e == entries(history)
       IN  \E i \in Scored(e) :
              /\ ScoreNum(e, i) > 0
              /\ ScoreNum(e, i) < 10 * total_time_range(e)
              /\ total_time_range(e) < min_neighbor_distance(e, i) * Len(e)

\* without the order of the timestamps the score leaves [0, 1]
Score_RangeAnyOrder ==
    (phase = "once" /\ Len(history) > max_entries /\ AllParse(history))
        => LET e == entries(history)
           IN  \A i \in Interior(history) :
                  /\ ScoreNum(e, i) >= 0
                  /\ ScoreNum(e, i) <= 10 * total_time_range(e)

---------------------------------------------------------------------------
\* The chronological boundaries (checked under SpecDownsample).

\* an entry of h with the earliest timestamp and an entry of h with the
\* latest timestamp are in the list out
ExtremesPresent(h, out) ==
    /\ \E i \in Present(h, out) :
          \A j \in 1..Len(h) : timestamp_sec(h[i]) <= timestamp_sec(h[j])
    /\ \E i \in Present(h, out) :
          \A j \in 1..Len(h) : timestamp_sec(h[i]) >= timestamp_sec(h[j])

\* C19 as stated: whatever the order of the input, an entry with the
\* earliest timestamp and an entry with the latest timestamp are returned.
C19_ChronologicalBoundariesAnyOrder ==
    (phase = "once" /\ Len(history) > 0 /\ AllParse(history))
        => ExtremesPresent(history, result)

\* C19: when the timestamps of the input are in non-decreasing order, an
\* entry with the earliest timestamp and an entry with the latest timestamp
\* are returned.
C19_ChronologicalBoundaries ==
    (phase = "once" /\ Len(history) > 0 /\ Chronological(history))
        => ExtremesPresent(history, result)

\* a chronological history that lost an entry and kept its two ends, which
\* are its only entries with the earliest and the latest timestamp
C19_Witness ==
    /\ phase = "once"
    /\ Chronological(history)
    /\ Len(result) < Len(history)
    /\ Len(history) >= 3
    /\ timestamp_sec(history[1]) < timestamp_sec(history[2])
    /\ timestamp_sec(history[Len(history) - 1]) < timestamp_sec(history[Len(history)])
    /\ ExtremesPresent(history, result)

---------------------------------------------------------------------------
\* The entry appended by one merge (checked under SpecMerge).

\* the entry has the timestamp ts at the top level, every metric of m at the
\* top level with its value, and no key "metrics"
Flattened(entry, ts, m) ==
    /\ entry.timestamp = ts
    /\ \A k \in DOMAIN m : k \in DOMAIN entry /\ entry[k] = m[k]
    /\ "metrics" \notin DOMAIN entry

\* C20: the entry add_history_entry appends has the timestamp of the
\* snapshot under the key timestamp, every metric of the snapshot as a
\* top-level key with its value, and no nested metrics key, for every set of
\* metric keys.
C20_FlattenedEntry ==
    pc = "open" =>
        Flattened(pending.history[Len(pending.history)],
                  results.timestamp, results.metrics)

\* what holds of it: the same, for the metrics without a key "timestamp"
Flattened_WithoutTimestampMetric ==
    (pc = "open" /\ "timestamp" \notin DOMAIN results.metrics) =>
        Flattened(pending.history[Len(pending.history)],
                  results.timestamp, results.metrics)

---------------------------------------------------------------------------
\* The arguments of the calls.

\* C21: the merge leaves its arguments as they were passed: the snapshot
\* record and the loaded history (checked under SpecMerge).
C21_NoInputModified ==
    [][(pc = "add" /\ pc' = "open")
          => results' = results /\ existing_history' = existing_history]_vars

\* what holds of it: the merge leaves the loaded history and the timestamp
\* and the metrics of the snapshot record as they were (checked under
\* SpecMerge)
Merge_KeepsHistoryArgument ==
    [][(pc = "add" /\ pc' = "open")
          => /\ existing_history' = existing_history
             /\ results'.timestamp = results.timestamp
             /\ results'.metrics = results.metrics]_vars

---------------------------------------------------------------------------
\* Which entries are scored and evicted (checked under SpecDownsample).

\* the interior positions of h whose timestamp parses
ParseableInterior(h) == {i \in Interior(h) : Parses(h[i].timestamp)}

\* C22: the positions the scoring loop scores are the interior positions
\* whose timestamp parses, whatever epoch value it parses to; when at least
\* that many entries are to be removed, every one of them is removed.
C22_ParseableScored ==
    (phase = "once" /\ Len(history) > max_entries) =>
        /\ Scored(entries(history)) = ParseableInterior(history)
        /\ Len(history) - max_entries >= Cardinality(ParseableInterior(history))
              => \A i \in ParseableInterior(history) :
                    i \notin Present(history, result)

\* what holds of it: the same, of the parseable timestamps that are not the
\* epoch itself
Scored_ParseableNonZero ==
    (phase = "once" /\ Len(history) > max_entries) =>
        /\ Scored(entries(history))
              = {i \in ParseableInterior(history) : timestamp_sec(history[i]) # 0}
        /\ Len(history) - max_entries >= Cardinality(ParseableInterior(history))
              => \A i \in ParseableInterior(history) :
                    timestamp_sec(history[i]) # 0
                        => i \notin Present(history, result)

\* the interior positions of h whose entry is not in the list out
Evicted(h, out) == Interior(h) \ Present(h, out)

\* C23: when the input is longer than the cap, every interior entry the call
\* evicts has a combined score greater than or equal to that of every scored
\* interior entry it keeps.
C23_DescendingScore ==
    (phase = "once" /\ Len(history) > max_entries) =>
        LET e == entries(history)
        IN  \A i \in Evicted(history, result) :
                /\ i \in Scored(e)
                /\ \A j \in Scored(e) \cap Present(history, result) :
                      ScoreNum(e, i) >= ScoreNum(e, j)

\* one entry evicted, and a scored entry of strictly lower score kept
C23_Witness ==
    /\ phase = "once"
    /\ Len(history) > max_entries
    /\ LET e == entries(history)
       IN  \E i \in Evicted(history, result) :
              \E j \in Scored(e) \cap Present(history, result) :
                  ScoreNum(e, i) > ScoreNum(e, j)

---------------------------------------------------------------------------
\* The formula of the score (checked under SpecScenario).

\* t[i], the parsed instant of the i-th entry of h
T(h, i) == parse_timestamp(h[i].timestamp)

\* range = t[n-1] - t[0]
Range(h) == T(h, Len(h)) - T(h, 1)

\* gap = min(t[i] - t[i-1], t[i+1] - t[i])
Gap(h, i) == Min(T(h, i) - T(h, i - 1), T(h, i + 1) - T(h, i))

\* clamp(1 - gap / (range / n), 0, 1) * range, for range > 0
ClampedProximity(h, i) ==
    IF Range(h) - Gap(h, i) * Len(h) < 0 THEN 0
    ELSE IF Range(h) - Gap(h, i) * Len(h) > Range(h) THEN Range(h)
    ELSE Range(h) - Gap(h, i) * Len(h)

C25_OlderRemovedFirst ==
    (phase = "once" /\ Chronological(history)) =>
        LET e == entries(history)
        IN  \A i, j \in Scored(e) :
               (/\ T(history, i) < T(history, j)
                /\ ProximityNum(e, i) = ProximityNum(e, j))
                  => /\ ScoreNum(e, i) > ScoreNum(e, j)
                     /\ j \in Evicted(history, result)
                           => i \in Evicted(history, result)

\* what the call does: of two such entries the later one has the higher
\* score, and the earlier one is evicted only if the later one is
Newer_RemovedFirst ==
    (phase = "once" /\ Chronological(history)) =>
        LET e == entries(history)
        IN  \A i, j \in Scored(e) :
               (/\ T(history, i) < T(history, j)
                /\ ProximityNum(e, i) = ProximityNum(e, j))
                  => /\ ScoreNum(e, i) < ScoreNum(e, j)
                     /\ i \in Evicted(history, result)
                           => j \in Evicted(history, result)

---------------------------------------------------------------------------
\* Unparseable entries and the scores of the others (checked under
\* SpecDownsample).

\* the positions of h whose timestamp parses
ParsedPositions(h) == {i \in 1..Len(h) : Parses(h[i].timestamp)}

\* the nearest position before i, and after i, whose timestamp parses
PrevParsed(h, i) == CHOOSE j \in ParsedPositions(h) :
    j < i /\ \A k \in ParsedPositions(h) : k < i => k <= j

NextParsed(h, i) == CHOOSE j \in ParsedPositions(h) :
    j > i /\ \A k \in ParsedPositions(h) : k > i => k >= j

\* the last parsed instant of h minus the first
ParsedRange(h) ==
    LET first == CHOOSE j \in ParsedPositions(h) :
                    \A k \in ParsedPositions(h) : j <= k
        last == CHOOSE j \in ParsedPositions(h) :
                    \A k \in ParsedPositions(h) : j >= k
    IN  T(h, last) - T(h, first)

\* C26: for every scored position the time range is the one of the parsed
\* timestamps, and the neighbour gap is the one to the nearest entries whose
\* timestamp parses: unparseable entries take no part in either.
C26_UnparseableOutsideScoring ==
    (phase = "once" /\ Len(history) > max_entries) =>
        LET e == entries(history)
        IN  \A i \in Scored(e) :
               /\ total_time_range(e) = ParsedRange(history)
               /\ (/\ \E j \in ParsedPositions(history) : j < i
                   /\ \E j \in ParsedPositions(history) : j > i)
                     => min_neighbor_distance(e, i) =
                           Min(T(history, i) - T(history, PrevParsed(history, i)),
                               T(history, NextParsed(history, i)) - T(history, i))

\* what the call does: an unparseable entry stands in both computations as
\* an entry at epoch second 0
Unparseable_ScoredAsEpoch ==
    (phase = "once" /\ Len(history) > max_entries) =>
        LET e == entries(history)
        IN  \A i \in Scored(e) :
               /\ total_time_range(e) =
                     (IF Parses(history[Len(history)].timestamp)
                      THEN T(history, Len(history)) ELSE 0)
                     - (IF Parses(history[1].timestamp)
                        THEN T(history, 1) ELSE 0)
               /\ ~Parses(history[i - 1].timestamp)
                     => min_neighbor_distance(e, i) <= T(history, i)

---------------------------------------------------------------------------
\* The growth of the stored history (checked under Spec).

\* every timestamp of h parses to a non-zero epoch second
AllNonZero(h) ==
    \A i \in 1..Len(h) : Parses(h[i].timestamp) /\ timestamp_sec(h[i]) # 0

\* C27: a written history whose timestamps all parse to non-zero epoch
\* seconds has at most max_history + 1 entries, and a run that finds
\* max_history + 1 of them loads max_history: it evicts exactly one entry, an
\* interior one.
C27_BoundedGrowth ==
    [][/\ (doc'.state = "ok" /\ AllNonZero(doc'.history))
             => Len(doc'.history) <= MaxHistory + 1
       /\ (/\ pc = "load" /\ pc' = "add"
           /\ doc.state = "ok"
           /\ AllNonZero(doc.history)
           /\ Len(doc.history) = MaxHistory + 1)
             => /\ Len(existing_history') = MaxHistory
                /\ existing_history'[1] = doc.history[1]
                /\ existing_history'[MaxHistory] = doc.history[MaxHistory + 1]]_vars

\* the fourth run found max_history + 1 entries with non-zero timestamps,
\* loaded max_history of them and wrote max_history + 1
C27_Witness ==
    /\ pc = "idle"
    /\ runs = MaxRuns
    /\ doc.state = "ok"
    /\ AllNonZero(doc.history)
    /\ Len(doc.history) = MaxHistory + 1
    /\ Len(existing_history) = MaxHistory

\* the compaction of the load brings any history whose timestamps all parse
\* to non-zero epoch seconds to the cap, for a cap >= 2 (checked under
\* SpecDownsample)
Compaction_ReachesCap ==
    (phase = "once" /\ AllNonZero(history) /\ max_entries >= 2)
        => Len(result) = Min(Len(history), max_entries)

---------------------------------------------------------------------------
\* The three categories of one run of main (checked under SpecMain).

---------------------------------------------------------------------------
\* Ties (checked under SpecDownsample).

\* C29: of two scored interior entries with equal combined score the one at
\* the higher index is evicted only if the one at the lower index is; the
\* entries returned are those outside the first to_remove_count positions of
\* the order by descending score and ascending index, a function of the
\* history and the cap alone.
C29_StableTieBreak ==
    (phase = "once" /\ Len(history) > max_entries) =>
        LET e == entries(history)
            k == Min(Len(history) - max_entries, Cardinality(Scored(e)))
        IN  /\ \A i, j \in Scored(e) :
                  (i < j /\ ScoreNum(e, i) = ScoreNum(e, j)
                         /\ j \in Evicted(history, result))
                     => i \in Evicted(history, result)
            /\ Evicted(history, result) =
                  {i \in Scored(e) :
                      Cardinality({j \in Scored(e) :
                          \/ ScoreNum(e, j) > ScoreNum(e, i)
                          \/ ScoreNum(e, j) = ScoreNum(e, i) /\ j < i}) < k}

\* two entries of equal score, the lower one evicted, the higher one kept
C29_Witness ==
    /\ phase = "once"
    /\ Len(history) > max_entries
    /\ LET e == entries(history)
       IN  \E i, j \in Scored(e) :
              /\ i < j
              /\ ScoreNum(e, i) = ScoreNum(e, j)
              /\ i \in Evicted(history, result)
              /\ j \in Present(history, result)

---------------------------------------------------------------------------
\* The exit status of the backfill (checked under SpecBackfillMain).

\* a call of backfill_history returns False in the step from the first
\* state to the second
ReturnsFalse ==
    /\ runs' = runs + 1
    /\ pc \in {"bf_call", "bf_open"}

\* C30: main returns only when every selected category has been attempted;
\* a call that returns False sets the flag and the loop goes on with the
\* next category; the flag changes in no other step; main returns 1 when
\* the flag was set and 0 otherwise; a call on a missing or unreadable
\* latest.json returns False, and a missing latest.json stays missing.
C30_BackfillExitStatus ==
    [][/\ ReturnsFalse => success' = "False" /\ pc' = "bf_call" /\ doc' = doc
       /\ success' # success => ReturnsFalse
       /\ (pc = "bf_call" /\ runs < Len(results.bench_types)
              /\ doc[results.bench_types[runs + 1]].state # "ok") => ReturnsFalse
       /\ pc' \in {"exit0", "exit1"}
             => /\ runs' = Len(results.bench_types)
                /\ pc' = "exit1" <=> success' = "False"
       /\ \A c \in 1..Len(Categories) :
             doc[c].state = "absent" => doc'[c].state = "absent"]_vars

\* main has returned 1: the first category failed on a missing latest.json,
\* which is still missing, and the other two were backfilled after it
C30_Witness ==
    /\ pc = "exit1"
    /\ runs = Len(Categories)
    /\ doc[1].state = "absent"
    /\ doc[2].state = "ok" /\ Len(doc[2].history) = 2
    /\ doc[3].state = "ok" /\ Len(doc[3].history) = 2

\* main returns 0 only when the latest.json of every selected category is
\* there and readable
Backfill_ExitOneIffFailure ==
    pc = "exit0" =>
        \A i \in 1..Len(results.bench_types) :
            doc[results.bench_types[i]].state = "ok"

=============================================================================
